---- MODULE Spec2Model ----
(***************************************************************************)
(* Static MCP registry generator.  The repository holds three variants of  *)
(* the same script generate-registry-endpoints.js:                         *)
(*   "full" = src/generate-registry-endpoints.js (HTML+JSON, per-entry     *)
(*            validation, raw server documents, bare server path)          *)
(*   "wrap" = src/unnamed/part_000 (HTML+JSON, {server,_meta} envelope)    *)
(*   "json" = src/unnamed/part_001 (JSON only, {server,_meta} envelope)    *)
(* A text is a sequence of symbols.  A symbol is one character ("a", "/",  *)
(* "&") or, for the fixed words of the scripts (dist, servers, versions,   *)
(* latest, index.json, ...), the whole word.                               *)
(***************************************************************************)
EXTENDS Integers, Sequences, FiniteSets, TLC

VARIABLES variant, pc, run, files, distExists, registry, exitCode, idx, now,
          diag, examined, cleared, jsonText, htmlText, rdata

vars == <<variant, pc, run, files, distExists, registry, exitCode, idx, now,
          diag, examined, cleared, jsonText, htmlText, rdata>>

Variants == {"full", "wrap", "json"}

\* ------------------------------------------------------------- bounds
MaxServers == 2
MaxRuns == 2
MaxClock == 1
MaxPieces == 2

\* ---------------------------------------------------------- constants
REGISTRY_FILE == <<"mcp-registry.json">>
OUTPUT_DIR == <<"dist">>
API_BASE == <<"v0.1">>
OFFICIAL == "io.modelcontextprotocol.registry/official"
SCHEMA_URL == [t |-> "str", s |-> <<"https://static.modelcontextprotocol.io/schemas/2025-09-29/server.schema.json">>]

\* ------------------------------------------------------------ symbols
Letters == {"a", "b", "x", "A", "B", "X", "latest"}
Digits == {"0", "1", "2", "5"}

\* ------------------------------------------------- JSON values (parsed)
\* A field value of a server entry: a string (t = "str", s its text) or
\* a non-string such as a number (t = "num", s the text String(value) gives).
Str(s) == [t |-> "str", s |-> s]
Num(s) == [t |-> "num", s |-> s]

\* JavaScript truthiness of a property that may be absent (undefined).
Truthy(o, f) ==
  /\ f \in DOMAIN o
  /\ IF o[f].t = "str" THEN o[f].s # <<>> ELSE o[f].s # <<"0">>

IsString(o, f) == f \in DOMAIN o /\ o[f].t = "str"

\* String(o[f]) as template literals and RegExp.prototype.test coerce it.
ToText(o, f) == IF f \in DOMAIN o THEN o[f].s ELSE <<"undefined">>

\* ------------------------------------------------------------- paths
RECURSIVE SplitFrom(_, _, _)
SplitFrom(s, i, cur) ==
  IF i > Len(s) THEN <<cur>>
  ELSE IF s[i] = "/" THEN <<cur>> \o SplitFrom(s, i + 1, <<>>)
  ELSE SplitFrom(s, i + 1, Append(cur, s[i]))

\* the segments of a text between "/" separators
Split(s) == SplitFrom(s, 1, <<>>)

RECURSIVE Flatten(_)
Flatten(ss) == IF ss = <<>> THEN <<>> ELSE Split(Head(ss)) \o Flatten(Tail(ss))

RECURSIVE NormalizeFrom(_, _, _)
NormalizeFrom(segs, i, acc) ==
  IF i > Len(segs) THEN acc
  ELSE IF segs[i] = <<>> \/ segs[i] = <<".">> THEN NormalizeFrom(segs, i + 1, acc)
  ELSE IF segs[i] = <<".", ".">>
    THEN IF acc # <<>> /\ acc[Len(acc)] # <<".", ".">>
           THEN NormalizeFrom(segs, i + 1, SubSeq(acc, 1, Len(acc) - 1))
           ELSE NormalizeFrom(segs, i + 1, Append(acc, segs[i]))
  ELSE NormalizeFrom(segs, i + 1, Append(acc, segs[i]))

\* path.join(base, ...args) of string arguments: join with "/", then normalize
\* "", "." and "..".  base is an already joined path (<<>> when there is none)
\* and the result is the sequence of the normalized path's segments.
pathJoin(base, args) == NormalizeFrom(base \o Flatten(args), 1, <<>>)

IsPrefix(p, q) == Len(p) <= Len(q) /\ SubSeq(q, 1, Len(p)) = p
IsProperPrefix(p, q) == Len(p) < Len(q) /\ SubSeq(q, 1, Len(p)) = p

InDist(p) == IsPrefix(<<OUTPUT_DIR>>, p)

\* ------------------------------------------------------ registry inputs
\* A server entry: a JSON object (t = "obj", f its fields) or null.
Obj(f) == [t |-> "obj", f |-> f]
NullEntry == [t |-> "null", f |-> <<>>]

Server(id, name, version) == Obj([id |-> Str(id), name |-> Str(name), version |-> Str(version)])

EntryA == Server(<<"a">>, <<"A">>, <<"1">>)
EntryB == Server(<<"b">>, <<"B">>, <<"2">>)
EntryDot == Server(<<"a", ".", "b">>, <<"A">>, <<"1">>)
EntrySlash == Server(<<"a", "/", "b">>, <<"A">>, <<"1">>)
EntrySpace == Server(<<"a", " ", "b">>, <<"A">>, <<"1">>)
EntryNoVersion == Obj([id |-> Str(<<"x">>), name |-> Str(<<"X">>)])
EntryNoName == Obj([id |-> Str(<<"x">>), version |-> Str(<<"1">>)])
EntryEmptyId == Server(<<>>, <<"A">>, <<"1">>)
EntryNumVersion == Obj([id |-> Str(<<"a">>), name |-> Str(<<"A">>), version |-> Num(<<"5">>)])
EntryUp == Server(<<"a">>, <<"A">>, <<".", ".", "/", ".", ".", "/", "b">>)
EntrySchema == Obj("$schema" :> Str(<<"own">>) @@ [id |-> Str(<<"b">>), name |-> Str(<<"B">>), version |-> Str(<<"1">>)])

Entries ==
  {EntryA, EntryB, EntryDot, EntrySlash, EntrySpace, EntryNoVersion,
   EntryNoName, EntryEmptyId, EntryNumVersion, EntryUp, EntrySchema, NullEntry}

RECURSIVE SeqsUpTo(_, _)
SeqsUpTo(S, n) ==
  IF n = 0 THEN {<<>>}
  ELSE LET shorter == SeqsUpTo(S, n - 1)
       IN shorter \cup {Append(q, e) : q \in shorter, e \in S}

\* What fs.readFileSync + JSON.parse of the registry file give: the file is
\* missing ("enoent"), not JSON ("syntax"), the JSON null, or an object whose
\* servers property is absent, null, a non-array (a string) or an array.
Reg(t, st, servers) == [t |-> t, st |-> st, servers |-> servers]

Registries ==
  {Reg("enoent", "absent", <<>>), Reg("syntax", "absent", <<>>), Reg("null", "absent", <<>>),
   Reg("obj", "absent", <<>>), Reg("obj", "null", <<>>), Reg("obj", "str", <<>>)}
  \cup {Reg("obj", "arr", q) : q \in SeqsUpTo(Entries, MaxServers)}

NoRegistry == Reg("none", "absent", <<>>)

\* !registry.servers || !Array.isArray(registry.servers)
ServersNotArray(reg) == reg.st # "arr"

\* ---------------------------------------------------------- validation
\* /^[a-z0-9\-]+$/i.test(id)
isValidServerIdFull(id) ==
  /\ id # <<>>
  /\ \A i \in 1..Len(id) : id[i] \in Letters \cup Digits \cup {"-"}

\* /^[a-z0-9\-.]+$/i.test(id)
isValidServerIdWrap(id) ==
  /\ id # <<>>
  /\ \A i \in 1..Len(id) : id[i] \in Letters \cup Digits \cup {"-", "."}

Diag(kind, index) == [kind |-> kind, index |-> index]
Failed(kind, index, n) == [ok |-> FALSE, diag |-> <<Diag(kind, index)>>, examined |-> n]
Passed(n) == [ok |-> TRUE, diag |-> <<>>, examined |-> n]

\* A faulty scan that does not stop: it goes on to the end and reports the
\* last invalid entry
RECURSIVE validateServersNoStop(_, _)
validateServersNoStop(servers, i) ==
  IF i > Len(servers) THEN Passed(Len(servers))
  ELSE LET server == servers[i]
           rest == validateServersNoStop(servers, i + 1)
       IN
    IF ~rest.ok THEN rest
    ELSE IF server.t = "null" THEN Failed("read", i, Len(servers))
    ELSE IF ~Truthy(server.f, "id") \/ ~Truthy(server.f, "name") \/ ~Truthy(server.f, "version")
      THEN Failed("missing", i, Len(servers))
    ELSE IF ~isValidServerIdFull(ToText(server.f, "id"))
      THEN Failed("invalidId", i, Len(servers))
    ELSE rest

\* registry.servers.forEach((server, index) => ...) of readRegistry: the scan
\* ends the process at the first entry that fails a check.  Reading a
\* property of a null entry throws a TypeError, which readRegistry's catch
\* reports before it exits.
RECURSIVE validateServers(_, _)
validateServers(servers, i) ==
  IF i > Len(servers) THEN Passed(Len(servers))
  ELSE LET server == servers[i] IN
    IF server.t = "null" THEN Failed("read", i, i)
    ELSE IF ~Truthy(server.f, "id") \/ ~Truthy(server.f, "name") \/ ~Truthy(server.f, "version")
      THEN Failed("missing", i, i)
    ELSE IF ~isValidServerIdFull(ToText(server.f, "id"))
      THEN Failed("invalidId", i, i)
    ELSE validateServers(servers, i + 1)

\* readRegistry of generate-registry-endpoints.js.  Entry indexes of the
\* diagnostics are 1-based here (index + 1 of the script); 0 = no entry.
readRegistryFull(reg) ==
  IF reg.t = "enoent" THEN Failed("notfound", 0, 0)
  ELSE IF reg.t = "syntax" THEN Failed("syntax", 0, 0)
  ELSE IF reg.t = "null" THEN Failed("read", 0, 0)
  ELSE IF ServersNotArray(reg) THEN Failed("schema", 0, 0)
  ELSE validateServers(reg.servers, 1)

\* readRegistry of part_000: the servers check only.
readRegistryWrap(reg) ==
  IF reg.t \in {"enoent", "syntax", "null"} THEN Failed("read", 0, 0)
  ELSE IF ServersNotArray(reg) THEN Failed("schema", 0, 0)
  ELSE Passed(0)

\* readRegistry of part_001: whatever JSON.parse returns.
readRegistryJson(reg) ==
  IF reg.t \in {"enoent", "syntax"} THEN Failed("read", 0, 0)
  ELSE Passed(0)

readRegistry(v, reg) ==
  CASE v = "full" -> readRegistryFull(reg)
    [] v = "wrap" -> readRegistryWrap(reg)
    [] v = "json" -> readRegistryJson(reg)

\* ------------------------------------------------------- file system
\* files maps the path of every file that exists to its content; the
\* directories are the proper prefixes of those paths, and dist itself
\* when distExists.  A content records the run that wrote it.
Throw == [op |-> "throw"]

\* ensureDir(path.dirname(filePath)); fs.writeFileSync(filePath, JSON.stringify(data, null, 2))
writeJSON(filePath, data) ==
  [op |-> "write", path |-> filePath, kind |-> "json", doc |-> data, title |-> <<>>]

\* ensureDir(path.dirname(filePath)); fs.writeFileSync(filePath, html): the page
\* carries the escaped title and the escaped JSON text of data.
writeHTML(filePath, data, title) ==
  [op |-> "write", path |-> filePath, kind |-> "html", doc |-> data, title |-> title]

\* fs.mkdirSync(dir, {recursive: true}) and fs.writeFileSync(filePath) succeed
\* unless a component of the directory is a file (ENOTDIR / EEXIST) or the
\* path is a directory (EISDIR).
CanWrite(fs, p) ==
  /\ \A q \in DOMAIN fs : ~IsProperPrefix(q, p)
  /\ \A q \in DOMAIN fs : ~IsProperPrefix(p, q)

\* A faulty write that leaves a file that exists as it is
PutNoOverwrite(fs, p, c) == [q \in DOMAIN fs \cup {p} |-> IF q \in DOMAIN fs THEN fs[q] ELSE c]

Put(fs, p, c) == [q \in DOMAIN fs \cup {p} |-> IF q = p THEN c ELSE fs[q]]

\* The statements of one step in order: a throw (a TypeError of path.join
\* or of a property read, or a failed write) ends the process with what
\* was written before it.
RECURSIVE Execute(_, _, _, _)
Execute(fs, ops, i, r) ==
  IF i > Len(ops) THEN [files |-> fs, ok |-> TRUE]
  ELSE IF ops[i].op = "throw" \/ ~CanWrite(fs, ops[i].path) THEN [files |-> fs, ok |-> FALSE]
  ELSE Execute(Put(fs, ops[i].path,
                   [run |-> r, kind |-> ops[i].kind, doc |-> ops[i].doc, title |-> ops[i].title]),
               ops, i + 1, r)

\* fs.rmSync(OUTPUT_DIR, {recursive: true})
rmSync(fs) == [q \in {p \in DOMAIN fs : ~InDist(p)} |-> fs[q]]

\* ---------------------------------------------------------- rendering
ServersPath == pathJoin(<<>>, <<OUTPUT_DIR, API_BASE, <<"servers">>>>)

\* wrapServerResponse(serverData, isLatest = true) at time t: the spread
\* ...serverData follows $schema, so a field of the record named $schema
\* replaces the injected one.
wrapServerResponse(serverData, isLatest, t) ==
  "server" :> (serverData @@ ("$schema" :> SCHEMA_URL))
  @@ "_meta" :> (OFFICIAL :> [status |-> "active", publishedAt |-> t, updatedAt |-> t,
                              isLatest |-> isLatest])

\* generateServersEndpoint, and the listing step of part_001's main
generateServersEndpoint(v, reg) ==
  <<writeJSON(pathJoin(ServersPath, <<<<"index.json">>>>), reg)>>
  \o IF v = "json" THEN <<>>
     ELSE <<writeHTML(pathJoin(ServersPath, <<<<"index.html">>>>), reg, <<"All MCP Servers">>)>>

\* One pass of the forEach of generateServerDetailEndpoints in
\* generate-registry-endpoints.js: the bare server path, then the version
\* path, then latest, each as index.json and index.html of the raw record.
detailFull(server) ==
  IF server.t = "null" \/ ~IsString(server.f, "id") THEN <<Throw>>
  ELSE LET name == ToText(server.f, "name")
           serverBasePath == pathJoin(ServersPath, <<server.f["id"].s>>)
       IN <<writeJSON(pathJoin(serverBasePath, <<<<"index.json">>>>), server.f),
            writeHTML(pathJoin(serverBasePath, <<<<"index.html">>>>), server.f, name \o <<" - Details">>)>>
          \o IF ~IsString(server.f, "version") THEN <<Throw>>
             ELSE LET version == server.f["version"].s
                      versionPath == pathJoin(serverBasePath, <<<<"versions">>, version>>)
                      latestPath == pathJoin(serverBasePath, <<<<"versions">>, <<"latest">>>>)
                  IN <<writeJSON(pathJoin(versionPath, <<<<"index.json">>>>), server.f),
                       writeHTML(pathJoin(versionPath, <<<<"index.html">>>>), server.f, name \o <<" v">> \o version),
                       writeJSON(pathJoin(latestPath, <<<<"index.json">>>>), server.f),
                       writeHTML(pathJoin(latestPath, <<<<"index.html">>>>), server.f, name \o <<" (Latest)">>)>>

\* One pass of the forEach of generateServerDetailEndpoints in part_000:
\* wrapServerResponse is called once for the version path (at t1) and once
\* more for latest (at t2).
detailWrap(server, t1, t2) ==
  IF server.t = "null" \/ ~IsString(server.f, "id") \/ ~IsString(server.f, "version") THEN <<Throw>>
  ELSE LET name == ToText(server.f, "name")
           version == server.f["version"].s
           versionPath == pathJoin(ServersPath, <<server.f["id"].s, <<"versions">>, version>>)
           versionData == wrapServerResponse(server.f, TRUE, t1)
           latestPath == pathJoin(ServersPath, <<server.f["id"].s, <<"versions">>, <<"latest">>>>)
           latestData == wrapServerResponse(server.f, TRUE, t2)
       IN <<writeJSON(pathJoin(versionPath, <<<<"index.json">>>>), versionData),
            writeHTML(pathJoin(versionPath, <<<<"index.html">>>>), versionData, name \o <<" v">> \o version),
            writeJSON(pathJoin(latestPath, <<<<"index.json">>>>), latestData),
            writeHTML(pathJoin(latestPath, <<<<"index.html">>>>), latestData, name \o <<" (Latest)">>)>>

\* One pass of the forEach of part_001's main: one wrapServerResponse (at t1)
\* written to both paths, JSON only.
detailJson(server, t1) ==
  IF server.t = "null" THEN <<Throw>>
  ELSE LET responseData == wrapServerResponse(server.f, TRUE, t1) IN
    IF ~IsString(server.f, "id") \/ ~IsString(server.f, "version") THEN <<Throw>>
    ELSE LET versionPath == pathJoin(ServersPath, <<server.f["id"].s, <<"versions">>, server.f["version"].s>>)
             latestPath == pathJoin(ServersPath, <<server.f["id"].s, <<"versions">>, <<"latest">>>>)
         IN <<writeJSON(pathJoin(versionPath, <<<<"index.json">>>>), responseData),
              writeJSON(pathJoin(latestPath, <<<<"index.json">>>>), responseData)>>

detailOps(v, server, t1, t2) ==
  CASE v = "full" -> detailFull(server)
    [] v = "wrap" -> detailWrap(server, t1, t2)
    [] v = "json" -> detailJson(server, t1)

\* generateIndexPage: the landing page dist/index.html with the server count
\* (and, in generate-registry-endpoints.js, the list of servers and the time).
generateIndexPage(v, reg, t) ==
  <<[op |-> "write", path |-> pathJoin(<<>>, <<OUTPUT_DIR, <<"index.html">>>>), kind |-> "landing",
     doc |-> [count |-> Len(reg.servers), servers |-> IF v = "full" THEN reg.servers ELSE <<>>,
              updated |-> IF v = "full" THEN t ELSE 0],
     title |-> <<"MCP Registry">>]>>

\* copyStaticFiles: ['.nojekyll', 'robots.txt'].forEach, copying the ones
\* that exist beside the script (present) into dist.
copyStaticFiles(present) ==
  LET copy(f) == IF f \in present
                   THEN <<[op |-> "write", path |-> pathJoin(<<>>, <<OUTPUT_DIR, f>>),
                           kind |-> "static", doc |-> f, title |-> <<>>]>>
                   ELSE <<>>
  IN copy(<<".nojekyll">>) \o copy(<<"robots.txt">>)

StaticFiles == {<<".nojekyll">>, <<"robots.txt">>}

Min(a, b) == IF a < b THEN a ELSE b

\* ------------------------------------------------- text of the files
\* JSON values with their members in insertion order: a string, a literal
\* (true, a number), an object or an array.
JStr(s) == [t |-> "str", s |-> s]
JLit(s) == [t |-> "lit", s |-> s]
JObj(kv) == [t |-> "obj", kv |-> kv]
JArr(items) == [t |-> "arr", items |-> items]
Member(k, v) == [k |-> k, v |-> v]

RECURSIVE Spaces(_)
Spaces(n) == IF n = 0 THEN <<>> ELSE <<" ">> \o Spaces(n - 1)

\* text.replace(/c/g, by): every occurrence of the character c replaced
\* (computed half by half)
RECURSIVE ReplaceAll(_, _, _)
ReplaceAll(text, c, by) ==
  IF text = <<>> THEN <<>>
  ELSE IF Len(text) = 1 THEN (IF text[1] = c THEN by ELSE text)
  ELSE LET half == Len(text) \div 2
       IN ReplaceAll(SubSeq(text, 1, half), c, by) \o ReplaceAll(SubSeq(text, half + 1, Len(text)), c, by)

\* JSON.stringify of a string: quoted, with backslash and double quote escaped
Quote(text) ==
  <<"\"">> \o ReplaceAll(ReplaceAll(text, "\\", <<"\\", "\\">>), "\"", <<"\\", "\"">>) \o <<"\"">>

\* JSON.stringify(data, null, 2), at indentation ind
RECURSIVE stringify(_, _)
RECURSIVE stringifyMembers(_, _, _)
RECURSIVE stringifyItems(_, _, _)
stringify(v, ind) ==
  CASE v.t = "str" -> Quote(v.s)
    [] v.t = "lit" -> v.s
    [] v.t = "obj" ->
         IF v.kv = <<>> THEN <<"{", "}">>
         ELSE <<"{", "\n">> \o stringifyMembers(v.kv, 1, ind + 2) \o <<"\n">> \o Spaces(ind) \o <<"}">>
    [] v.t = "arr" ->
         IF v.items = <<>> THEN <<"[", "]">>
         ELSE <<"[", "\n">> \o stringifyItems(v.items, 1, ind + 2) \o <<"\n">> \o Spaces(ind) \o <<"]">>

stringifyMembers(kv, i, ind) ==
  Spaces(ind) \o Quote(kv[i].k) \o <<":", " ">> \o stringify(kv[i].v, ind)
  \o IF i < Len(kv) THEN <<",", "\n">> \o stringifyMembers(kv, i + 1, ind) ELSE <<>>

stringifyItems(items, i, ind) ==
  Spaces(ind) \o stringify(items[i], ind)
  \o IF i < Len(items) THEN <<",", "\n">> \o stringifyItems(items, i + 1, ind) ELSE <<>>

\* A faulty escapeHtml: the ampersand is replaced last, after the entities were made
escapeHtmlAmpLast(text) ==
  IF text = <<>> THEN <<>>
  ELSE ReplaceAll(ReplaceAll(ReplaceAll(ReplaceAll(ReplaceAll(text,
         "<", <<"&", "l", "t", ";">>),
         ">", <<"&", "g", "t", ";">>),
         "\"", <<"&", "q", "u", "o", "t", ";">>),
         "'", <<"&", "#", "0", "3", "9", ";">>),
         "&", <<"&", "a", "m", "p", ";">>)

\* escapeHtml: '' for an empty text, else the five replacements in order
escapeHtml(text) ==
  IF text = <<>> THEN <<>>
  ELSE ReplaceAll(ReplaceAll(ReplaceAll(ReplaceAll(ReplaceAll(text,
         "&", <<"&", "a", "m", "p", ";">>),
         "<", <<"&", "l", "t", ";">>),
         ">", <<"&", "g", "t", ";">>),
         "\"", <<"&", "q", "u", "o", "t", ";">>),
         "'", <<"&", "#", "0", "3", "9", ";">>)

\* what writeJSON puts in the file
jsonFileText(data) == stringify(data, 0)

PRE_OPEN == "<pre><code>"
PRE_CLOSE == "</code></pre>"

\* what writeHTML puts in the file (the markup between the interpolations as
\* one symbol each)
htmlFileText(v, data, title) ==
  IF v = "full"
    THEN <<"<!DOCTYPE html>...<title>">> \o escapeHtml(title) \o <<" - MCP Registry</title>...<h1>">>
         \o escapeHtml(title) \o <<"</h1>...<h2>JSON Response</h2>">>
         \o <<PRE_OPEN>> \o escapeHtml(stringify(data, 0)) \o <<PRE_CLOSE>>
         \o <<"<hr>...</html>">>
    ELSE <<"<!DOCTYPE html>...<title>">> \o escapeHtml(title) \o <<"</title>...<h1>">>
         \o escapeHtml(title) \o <<"</h1><p>This is a static JSON endpoint.</p>">>
         \o <<PRE_OPEN>> \o escapeHtml(stringify(data, 0)) \o <<PRE_CLOSE>>
         \o <<"</body></html>">>

\* The documents rendered: a server record, its {server, _meta} envelope and
\* a listing, for names put together from these pieces.
NamePieces ==
  {<<"a">>, <<"&">>, <<"<">>, <<">">>, <<"\"">>, <<"'">>, <<"\\">>,
   <<"&", "a", "m", "p", ";">>, <<"&", "l", "t", ";">>, <<"&", "#", "0", "3", "9", ";">>}

RECURSIVE Concat(_)
Concat(ss) == IF ss = <<>> THEN <<>> ELSE Head(ss) \o Concat(Tail(ss))

Names == {Concat(q) : q \in SeqsUpTo(NamePieces, MaxPieces)}

RenderServer(name) ==
  JObj(<<Member(<<"id">>, JStr(<<"a">>)), Member(<<"name">>, JStr(name)),
         Member(<<"version">>, JStr(<<"1">>))>>)

RenderWrapped(name) ==
  JObj(<<Member(<<"server">>, JObj(<<Member(<<"$schema">>, JStr(SCHEMA_URL.s))>> \o RenderServer(name).kv)),
         Member(<<"_meta">>, JObj(<<Member(<<OFFICIAL>>,
           JObj(<<Member(<<"status">>, JStr(<<"active">>)),
                  Member(<<"publishedAt">>, JStr(<<"2026-01-01T00:00:00.000Z">>)),
                  Member(<<"updatedAt">>, JStr(<<"2026-01-01T00:00:00.000Z">>)),
                  Member(<<"isLatest">>, JLit(<<"true">>))>>))>>))>>)

RenderListing(name) == JObj(<<Member(<<"servers">>, JArr(<<RenderServer(name)>>))>>)

Rendered(data, title) == [data |-> data, title |-> title]

RenderInputs(v) ==
  UNION {{Rendered(IF v = "full" THEN RenderServer(n) ELSE RenderWrapped(n), n \o <<" v">> \o <<"1">>),
          Rendered(IF v = "full" THEN RenderServer(n) ELSE RenderWrapped(n), n \o <<" (Latest)">>),
          Rendered(RenderListing(n), <<"All MCP Servers">>)} : n \in Names}

\* new Date(): the clock has not moved since the last reading, or has moved on.
Ticks(t) == t..Min(t + 1, MaxClock)

\* ------------------------------------------------------------- actions
Ended == pc \in {"done", "exited"}

RenderIdle == UNCHANGED <<jsonText, htmlText, rdata>>

Init ==
  /\ variant \in Variants
  /\ pc = "idle"
  /\ run = 0
  /\ files = <<>>
  /\ distExists = FALSE
  /\ registry = NoRegistry
  /\ exitCode = -1
  /\ idx = 0
  /\ now = 0
  /\ diag = <<>>
  /\ examined = 0
  /\ cleared = FALSE
  /\ jsonText = <<>>
  /\ htmlText = <<>>
  /\ rdata = <<>>

\* The process ends with a non-zero status: process.exit(1), or an exception
\* nobody catches.
Exit(fs) ==
  /\ files' = fs
  /\ pc' = "exited"
  /\ exitCode' = 1

\* A faulty main that keeps the output directory as it is
CleanOutputDirKeep(fs) == fs

\* main, first statements: remove dist if it exists, then create it.
\* (A build is started by hand or by the deployment workflow, one at a time.)
CleanOutputDir(fs) == rmSync(fs)

Main ==
  /\ pc \in {"idle", "done", "exited"}
  /\ run < MaxRuns
  /\ run' = run + 1
  /\ cleared' = (\E p \in DOMAIN files : InDist(p))
  /\ files' = CleanOutputDir(files)
  /\ distExists' = TRUE
  /\ pc' = "read"
  /\ registry' = NoRegistry
  /\ exitCode' = -1
  /\ idx' = 0
  /\ diag' = <<>>
  /\ examined' = 0
  /\ UNCHANGED <<variant, now>>
  /\ RenderIdle

\* const registry = readRegistry(), for whatever the registry file holds.
ReadRegistry ==
  /\ pc = "read"
  /\ \E reg \in Registries :
       LET r == readRegistry(variant, reg) IN
         /\ registry' = reg
         /\ diag' = r.diag
         /\ examined' = r.examined
         /\ IF r.ok THEN pc' = "listing" /\ UNCHANGED <<files, exitCode>>
                    ELSE Exit(files)
  /\ UNCHANGED <<variant, run, distExists, idx, now, cleared>>
  /\ RenderIdle

\* generateServersEndpoint(registry)
Listing ==
  /\ pc = "listing"
  /\ LET r == Execute(files, generateServersEndpoint(variant, registry), 1, run) IN
       IF r.ok THEN files' = r.files /\ pc' = "detail" /\ idx' = 1 /\ UNCHANGED exitCode
               ELSE Exit(r.files) /\ UNCHANGED idx
  /\ UNCHANGED <<variant, run, distExists, registry, now, diag, examined, cleared>>
  /\ RenderIdle

\* generateServerDetailEndpoints / the detail loop of part_001: reading
\* registry.servers of the JSON null throws.
DetailThrow ==
  /\ pc = "detail"
  /\ registry.t = "null"
  /\ Exit(files)
  /\ UNCHANGED <<variant, run, distExists, registry, idx, now, diag, examined, cleared>>
  /\ RenderIdle

\* one pass of the forEach over registry.servers
DetailEntry ==
  /\ pc = "detail"
  /\ registry.t = "obj"
  /\ registry.st = "arr"
  /\ idx <= Len(registry.servers)
  /\ \E t1 \in Ticks(now) : \E t2 \in Ticks(t1) :
       /\ variant = "full" => t1 = now /\ t2 = now
       /\ variant = "json" => t2 = t1
       /\ now' = t2
       /\ LET r == Execute(files, detailOps(variant, registry.servers[idx], t1, t2), 1, run) IN
            IF r.ok THEN files' = r.files /\ idx' = idx + 1 /\ UNCHANGED <<pc, exitCode>>
                    ELSE Exit(r.files) /\ UNCHANGED idx
  /\ UNCHANGED <<variant, run, distExists, registry, diag, examined, cleared>>
  /\ RenderIdle

\* the forEach is over, or there was no array to loop over
DetailDone ==
  /\ pc = "detail"
  /\ registry.t = "obj"
  /\ registry.st = "arr" => idx > Len(registry.servers)
  /\ pc' = IF variant = "json" THEN "static" ELSE "index"
  /\ UNCHANGED <<variant, run, files, distExists, registry, exitCode, idx, now, diag, examined, cleared>>
  /\ RenderIdle

\* generateIndexPage(registry)
IndexPage ==
  /\ pc = "index"
  /\ \E t \in Ticks(now) :
       /\ variant # "full" => t = now
       /\ now' = t
       /\ LET r == Execute(files, generateIndexPage(variant, registry, t), 1, run) IN
            IF r.ok THEN files' = r.files /\ pc' = "static" /\ UNCHANGED exitCode
                    ELSE Exit(r.files)
  /\ UNCHANGED <<variant, run, distExists, registry, idx, diag, examined, cleared>>
  /\ RenderIdle

\* copyStaticFiles(), then main returns and the process ends with status 0.
CopyStatic ==
  /\ pc = "static"
  /\ \E present \in SUBSET StaticFiles :
       LET r == Execute(files, copyStaticFiles(present), 1, run) IN
         IF r.ok THEN files' = r.files /\ pc' = "done" /\ exitCode' = 0
                 ELSE Exit(r.files)
  /\ UNCHANGED <<variant, run, distExists, registry, idx, now, diag, examined, cleared>>
  /\ RenderIdle

Next ==
  \/ Main
  \/ ReadRegistry
  \/ Listing
  \/ DetailThrow
  \/ DetailEntry
  \/ DetailDone
  \/ IndexPage
  \/ CopyStatic

Spec == Init /\ [][Next]_vars

\* ---------------------------------------------- text rendering of a document
PipelineIdle ==
  UNCHANGED <<variant, run, files, distExists, registry, exitCode, idx, now, diag, examined, cleared>>

InitRender ==
  /\ variant \in Variants
  /\ pc = "render"
  /\ rdata \in RenderInputs(variant)
  /\ jsonText = <<>>
  /\ htmlText = <<>>
  /\ run = 0
  /\ files = <<>>
  /\ distExists = TRUE
  /\ registry = NoRegistry
  /\ exitCode = -1
  /\ idx = 0
  /\ now = 0
  /\ diag = <<>>
  /\ examined = 0
  /\ cleared = FALSE

\* writeJSON(path.join(dir, 'index.json'), data)
RenderJSON ==
  /\ pc = "render"
  /\ jsonText' = jsonFileText(rdata.data)
  /\ pc' = "jsonWritten"
  /\ UNCHANGED <<htmlText, rdata>>
  /\ PipelineIdle

\* writeHTML(path.join(dir, 'index.html'), data, title): part_001 has none
RenderHTML ==
  /\ pc = "jsonWritten"
  /\ variant # "json"
  /\ htmlText' = htmlFileText(variant, rdata.data, rdata.title)
  /\ pc' = "htmlWritten"
  /\ UNCHANGED <<jsonText, rdata>>
  /\ PipelineIdle

NextRender ==
  \/ RenderJSON
  \/ RenderHTML

SpecRender == InitRender /\ [][NextRender]_vars

\* ====================================================================
\* Properties
\* ====================================================================
DistFiles == {p \in DOMAIN files : InDist(p)}

\* the endpoint documents: what lies under dist/v0.1
EndpointDocs == {p \in DOMAIN files : IsPrefix(pathJoin(<<>>, <<OUTPUT_DIR, API_BASE>>), p)}

IsArr == registry.t = "obj" /\ registry.st = "arr"

ListingJson == pathJoin(ServersPath, <<<<"index.json">>>>)

\* where the documents of an entry with string id and version belong
VersionJson(e) ==
  pathJoin(ServersPath, <<e.f["id"].s, <<"versions">>, e.f["version"].s, <<"index.json">>>>)
LatestJson(e) ==
  pathJoin(ServersPath, <<e.f["id"].s, <<"versions">>, <<"latest">>, <<"index.json">>>>)

HasStrings(e) == e.t = "obj" /\ IsString(e.f, "id") /\ IsString(e.f, "version")

\* --------------------------------------------------------------------
\* C1: when the parsed registry's servers field is absent, null or not an
\* array, the run ends with a non-zero exit status and dist holds no file
\* written by the run.
C1_RejectedBeforeAnyWrite ==
  (Ended /\ registry.t = "obj" /\ registry.st # "arr")
    => (exitCode # 0 /\ DistFiles = {})

\* --------------------------------------------------------------------
\* C2: when some entry lacks, or has empty, id, name or version, the run ends
\* with a non-zero status and no document produced from that entry (the
\* listing that contains it, its bare document, its detail documents) exists.
C2_Lacks(e) ==
  e.t = "obj" /\ \E f \in {"id", "name", "version"} : f \notin DOMAIN e.f \/ e.f[f].s = <<>>

C2_MadeFrom(c, e) ==
  /\ c.kind \in {"json", "html"}
  /\ \/ c.doc = registry
     \/ c.doc = e.f
     \/ "server" \in DOMAIN c.doc /\ c.doc["server"] = e.f @@ ("$schema" :> SCHEMA_URL)

C2_MissingFieldRejected ==
  (Ended /\ IsArr)
    => \A i \in 1..Len(registry.servers) :
         C2_Lacks(registry.servers[i])
           => /\ exitCode # 0
              /\ \A p \in DistFiles : ~C2_MadeFrom(files[p], registry.servers[i])

\* --------------------------------------------------------------------
\* C3: an id is accepted exactly when it is a non-empty text of letters,
\* digits, dot and hyphen: a registry of otherwise complete entries is
\* rejected when some id has another character, and is built (exit status 0,
\* every entry's documents present) when every id is in the grammar, dots
\* included.
C3_Grammar(id) ==
  id # <<>> /\ \A i \in 1..Len(id) : id[i] \in Letters \cup Digits \cup {".", "-"}

C3_Complete(e) ==
  /\ e.t = "obj"
  /\ \A f \in {"id", "name", "version"} : f \in DOMAIN e.f /\ e.f[f].t = "str" /\ e.f[f].s # <<>>

C3_IdGrammarDecides ==
  (Ended /\ IsArr /\ \A i \in 1..Len(registry.servers) : C3_Complete(registry.servers[i]))
    => IF \A i \in 1..Len(registry.servers) : C3_Grammar(registry.servers[i].f["id"].s)
         THEN /\ exitCode = 0
              /\ \A i \in 1..Len(registry.servers) :
                   {VersionJson(registry.servers[i]), LatestJson(registry.servers[i])} \subseteq DOMAIN files
         ELSE exitCode # 0

\* --------------------------------------------------------------------
\* C4: a run of generate-registry-endpoints.js ends with exit status 0 and
\* every endpoint document written, or with a non-zero status and no endpoint
\* document in dist; never with only some of them.
C4_AllWritten ==
  /\ ListingJson \in DOMAIN files
  /\ IsArr => \A i \in 1..Len(registry.servers) :
       /\ HasStrings(registry.servers[i])
       /\ {VersionJson(registry.servers[i]), LatestJson(registry.servers[i])} \subseteq DOMAIN files

C4_AllOrNothing ==
  (Ended /\ variant = "full")
    => IF exitCode = 0 THEN C4_AllWritten ELSE EndpointDocs = {}

\* --------------------------------------------------------------------
\* C5: after a successful run the directories under dist/v0.1/servers are
\* exactly the listed ids (none, and an empty listing, when servers is empty),
\* and every listed server has its version and latest index.json, each with
\* server.id the entry's id and isLatest true.
ServerDirs == {p[Len(ServersPath) + 1] : p \in {q \in DistFiles : IsPrefix(ServersPath, q) /\ Len(q) > Len(ServersPath) + 1}}

C5_IsDetailOf(c, e) ==
  /\ c.kind = "json"
  /\ DOMAIN c.doc = {"server", "_meta"}
  /\ "id" \in DOMAIN c.doc["server"]
  /\ c.doc["server"]["id"] = e.f["id"]
  /\ c.doc["_meta"][OFFICIAL].isLatest = TRUE

C5_SuccessfulTree ==
  (pc = "done" /\ IsArr)
    => /\ ListingJson \in DOMAIN files
       /\ files[ListingJson].doc = registry
       /\ \A i \in 1..Len(registry.servers) : HasStrings(registry.servers[i])
       /\ ServerDirs = {registry.servers[i].f["id"].s : i \in 1..Len(registry.servers)}
       /\ \A i \in 1..Len(registry.servers) :
            \A p \in {VersionJson(registry.servers[i]), LatestJson(registry.servers[i])} :
              p \in DOMAIN files /\ C5_IsDetailOf(files[p], registry.servers[i])

\* --------------------------------------------------------------------
\* C6: the document a run writes at versions/latest/index.json for a server
\* is identical, timestamps included, to the one it writes at
\* versions/{version}/index.json (read while the entry is the last one written,
\* up to and including the end of a successful run).
\* entry idx - 1 is the last one the detail loop has written (the loop may
\* be going on, or be over and the run on its way to its end or ended)
JustWritten ==
  /\ pc \in {"detail", "index", "static", "done"}
  /\ IsArr
  /\ idx > 1
  /\ HasStrings(registry.servers[idx - 1])

C6_LatestIdentical ==
  JustWritten
    => LET e == registry.servers[idx - 1] IN
         /\ {VersionJson(e), LatestJson(e)} \subseteq DOMAIN files
         /\ files[LatestJson(e)].doc = files[VersionJson(e)].doc

\* --------------------------------------------------------------------
\* C7: the server sub-object of every detail document, without its $schema
\* field, is the original server record, field for field.
C7_Without(o, k) == [f \in DOMAIN o \ {k} |-> o[f]]

C7_RoundTrip ==
  JustWritten
    => LET e == registry.servers[idx - 1] IN
         \A p \in {VersionJson(e), LatestJson(e)} :
           /\ p \in DOMAIN files
           /\ "server" \in DOMAIN files[p].doc
           /\ C7_Without(files[p].doc["server"], "$schema") = e.f

\* --------------------------------------------------------------------
\* C8: un-escaping the five entities in the text of the <pre> block of
\* index.html gives back exactly the text of the sibling index.json, also for
\* strings with <, >, &, quotes and text that already looks like an entity.
C8_Entities ==
  {[from |-> <<"&", "a", "m", "p", ";">>, to |-> "&"],
   [from |-> <<"&", "l", "t", ";">>, to |-> "<"],
   [from |-> <<"&", "g", "t", ";">>, to |-> ">"],
   [from |-> <<"&", "q", "u", "o", "t", ";">>, to |-> "\""],
   [from |-> <<"&", "#", "0", "3", "9", ";">>, to |-> "'"]}

C8_StartsWith(text, i, w) ==
  i + Len(w) - 1 <= Len(text) /\ SubSeq(text, i, i + Len(w) - 1) = w

\* One left-to-right pass of an HTML decoder: an entity starts at i when its
\* text is read there (entities cannot overlap: each begins with its only
\* "&"); the characters after the first of an entity are dropped with it.
C8_EntityAt(text, i) == \E e \in C8_Entities : C8_StartsWith(text, i, e.from)

C8_Inside(text, i) ==
  \E e \in C8_Entities : \E j \in (i - Len(e.from) + 1)..(i - 1) :
    j >= 1 /\ C8_StartsWith(text, j, e.from)

C8_Unescape(text) ==
  LET kept == SelectSeq([i \in 1..Len(text) |-> i], LAMBDA i : ~C8_Inside(text, i))
  IN [n \in 1..Len(kept) |->
        IF C8_EntityAt(text, kept[n])
          THEN (CHOOSE e \in C8_Entities : C8_StartsWith(text, kept[n], e.from)).to
          ELSE text[kept[n]]]

C8_PreBlock(html) ==
  LET open == CHOOSE i \in 1..Len(html) : html[i] = PRE_OPEN
      close == CHOOSE i \in 1..Len(html) : html[i] = PRE_CLOSE
  IN SubSeq(html, open + 1, close - 1)

C8_UnescapeRestoresJson ==
  pc = "htmlWritten" => C8_Unescape(C8_PreBlock(htmlText)) = jsonText

\* both files of a record are written whose name holds a "<" and an "&amp;"
C8_Witness ==
  /\ pc = "htmlWritten"
  /\ \E i \in 1..Len(jsonText) : jsonText[i] = "<"
  /\ \E i \in 1..Len(jsonText) : C8_StartsWith(jsonText, i, <<"&", "a", "m", "p", ";">>)

\* --------------------------------------------------------------------
\* C9: every run removes dist before its first write: from the moment a run
\* has started, and when it has ended, every file in dist was written by
\* that run, whatever earlier runs left there.
C9_OnlyThisRun ==
  pc # "idle" => \A p \in DistFiles : files[p].run = run

\* a later run has ended with output of its own, after clearing what the
\* run before it had left in dist
C9_Witness ==
  Ended /\ run > 1 /\ cleared /\ DistFiles # {}

\* --------------------------------------------------------------------
\* C10: the validation of generate-registry-endpoints.js is one left-to-right
\* scan that stops at the first invalid entry: exactly one diagnostic, about
\* the invalid entry of lowest index, no later entry examined, and within an
\* entry the required fields are checked before the id grammar.
C10_Missing(e) ==
  e.t = "obj" /\ \E f \in {"id", "name", "version"} : ~Truthy(e.f, f)

C10_Invalid(e) ==
  e.t = "null" \/ C10_Missing(e) \/ ~isValidServerIdFull(ToText(e.f, "id"))

C10_InvalidAt == {i \in 1..Len(registry.servers) : C10_Invalid(registry.servers[i])}

C10_First == CHOOSE i \in C10_InvalidAt : \A j \in C10_InvalidAt : i <= j

C10_FirstInvalidOnly ==
  (variant = "full" /\ pc \notin {"idle", "read"} /\ IsArr)
    => IF C10_InvalidAt = {}
         THEN diag = <<>> /\ examined = Len(registry.servers)
         ELSE /\ pc = "exited"
              /\ Len(diag) = 1
              /\ diag[1].index = C10_First
              /\ examined = C10_First
              /\ diag[1].kind =
                   IF registry.servers[C10_First].t = "null" THEN "read"
                   ELSE IF C10_Missing(registry.servers[C10_First]) THEN "missing"
                   ELSE "invalidId"

\* a registry with two invalid entries, the first one both without a usable
\* id and outside the grammar, was rejected
C10_Witness ==
  /\ variant = "full"
  /\ pc = "exited"
  /\ IsArr
  /\ Cardinality(C10_InvalidAt) > 1
  /\ C10_Missing(registry.servers[C10_First])
  /\ ~isValidServerIdFull(ToText(registry.servers[C10_First].f, "id"))
  /\ diag = <<Diag("missing", C10_First)>>

\* --------------------------------------------------------------------
\* C11: entries that share an id are not rejected; they are written in
\* servers order to the same paths, so the documents at
\* dist/v0.1/servers/{id}/ (the bare document, where the script writes one,
\* and versions/latest) are those of the entry written last, whatever an
\* earlier entry with that id had put there, and a registry whose entries are
\* each acceptable on their own ends with exit status 0.
BareJson(e) == pathJoin(ServersPath, <<e.f["id"].s, <<"index.json">>>>)

C11_SameId(i, j) ==
  /\ HasStrings(registry.servers[i])
  /\ HasStrings(registry.servers[j])
  /\ registry.servers[i].f["id"] = registry.servers[j].f["id"]

C11_HasDuplicate ==
  \E i, j \in 1..Len(registry.servers) : i < j /\ C11_SameId(i, j)

\* the document the script makes of entry e, whatever the time it was made
C11_DocOf(c, e) ==
  /\ c.kind = "json"
  /\ IF variant = "full" THEN c.doc = e.f
     ELSE /\ DOMAIN c.doc = {"server", "_meta"}
          /\ c.doc["server"] = e.f @@ ("$schema" :> SCHEMA_URL)

C11_Acceptable(e) ==
  HasStrings(e) /\ (variant = "full" => ~C10_Invalid(e))

C12_OwnDir(e) == pathJoin(ServersPath, <<e.f["id"].s>>)

C12_ListingFiles ==
  {pathJoin(ServersPath, <<<<"index.json">>>>), pathJoin(ServersPath, <<<<"index.html">>>>)}

C12_InsideOwnDirectory ==
  (pc = "detail" /\ IsArr /\ idx = 2 /\ HasStrings(registry.servers[1]))
    => \A p \in DOMAIN files :
         p \in C12_ListingFiles \/ IsProperPrefix(C12_OwnDir(registry.servers[1]), p)

====
